---- MODULE Spec2Model ----
(***************************************************************************)
(* Model of cse_dividend_scraper.py: the post extractor                    *)
(* (extract_dividend_data), the crawl loop (scrape_dividend_announcements) *)
(* and the month filter (filter_by_month).                                 *)
(*                                                                         *)
(* Text is a sequence of one-character strings, so that the regular        *)
(* expressions and datetime.strptime are computed character by character,  *)
(* as the source computes them.                                            *)
(***************************************************************************)
EXTENDS Integers, Sequences, FiniteSets, TLC

(***************************************************************************)
(* Characters and character classes of Python's re module.  A character   *)
(* is a one-character string; text is over the code points U+0000..U+00FF. *)
(***************************************************************************)
NL == "\n"

Digit == {"0", "1", "2", "3", "4", "5", "6", "7", "8", "9"}

Upper == {"A", "B", "C", "D", "E", "F", "G", "H", "I", "J", "K", "L", "M",
          "N", "O", "P", "Q", "R", "S", "T", "U", "V", "W", "X", "Y", "Z"}

Lower == {"a", "b", "c", "d", "e", "f", "g", "h", "i", "j", "k", "l", "m",
          "n", "o", "p", "q", "r", "s", "t", "u", "v", "w", "x", "y", "z"}

Alpha == Upper \cup Lower

\* the white space other than blank, \t, \n, \r and \f: vertical tab
\* (U+000B), the four separators U+001C..U+001F, next line (U+0085) and the
\* no-break space (U+00A0, the &nbsp; of the pages)
VT == ""

FS == ""

GS == ""

RS == ""

US == ""

NEL == ""

NBSP == " "

\* \s of a str pattern, and what str.strip() removes
Space == {" ", "\t", NL, "\r", "\f", VT, FS, GS, RS, US, NEL, NBSP}

DigitVal == [c \in Digit |->
               CASE c = "0" -> 0 [] c = "1" -> 1 [] c = "2" -> 2 [] c = "3" -> 3
                 [] c = "4" -> 4 [] c = "5" -> 5 [] c = "6" -> 6 [] c = "7" -> 7
                 [] c = "8" -> 8 [] c = "9" -> 9]

\* str.lower() on one character
LowerOf(c) ==
    CASE c = "A" -> "a" [] c = "B" -> "b" [] c = "C" -> "c" [] c = "D" -> "d"
      [] c = "E" -> "e" [] c = "F" -> "f" [] c = "G" -> "g" [] c = "H" -> "h"
      [] c = "I" -> "i" [] c = "J" -> "j" [] c = "K" -> "k" [] c = "L" -> "l"
      [] c = "M" -> "m" [] c = "N" -> "n" [] c = "O" -> "o" [] c = "P" -> "p"
      [] c = "Q" -> "q" [] c = "R" -> "r" [] c = "S" -> "s" [] c = "T" -> "t"
      [] c = "U" -> "u" [] c = "V" -> "v" [] c = "W" -> "w" [] c = "X" -> "x"
      [] c = "Y" -> "y" [] c = "Z" -> "z" [] OTHER -> c

(***************************************************************************)
(* Bind(v, F) is F(v) with v computed once, before F is applied: the value *)
(* of a Python local variable.                                             *)
(***************************************************************************)
Bind(v, F(_)) == CHOOSE r \in { F(x) : x \in {v} } : TRUE

Bind2(v, w, F(_, _)) == CHOOSE r \in { F(x, y) : x \in {v}, y \in {w} } : TRUE

(***************************************************************************)
(* A backtracking matcher for the regular expressions of the source.  A    *)
(* pattern is a sequence of items: a literal string, or between lo and hi  *)
(* characters of class cls, matched greedily (hi = -1: no upper limit).    *)
(***************************************************************************)
One(cls) == [cls |-> cls, lo |-> 1, hi |-> 1]

Rep(cls, n) == [cls |-> cls, lo |-> n, hi |-> n]

Opt(cls) == [cls |-> cls, lo |-> 0, hi |-> 1]

Star(cls) == [cls |-> cls, lo |-> 0, hi |-> -1]

Plus(cls) == [cls |-> cls, lo |-> 1, hi |-> -1]

\* a literal string, matched as a whole
Lit(chars) == << [lit |-> chars] >>

IsLit(item) == "lit" \in DOMAIN item

LitAt(chars, s, pos) ==
    /\ pos + Len(chars) - 1 <= Len(s)
    /\ \A k \in 1..Len(chars) : s[pos + k - 1] = chars[k]

\* $ : the end of the string, or just before a newline that ends it
AtEnd(s, pos) == pos = Len(s) + 1 \/ (pos = Len(s) /\ s[pos] = NL)

\* the number of characters of the item's class from pos on, at most hi
RunLen(item, s, pos) ==
    LET fits(n) == /\ pos + n - 1 <= Len(s)
                   /\ item.hi = -1 \/ n <= item.hi
                   /\ \A j \in 0..(n - 1) : s[pos + j] \in item.cls
    IN  CHOOSE n \in 0..(Len(s) + 1 - pos) :
            fits(n) /\ \A m \in (n + 1)..(Len(s) + 1 - pos) : ~fits(m)

RECURSIVE MatchFrom(_, _, _, _, _), TryCount(_, _, _, _, _, _)
\* items k.. of pat matched at pos: the positions before each item and after
\* the last, or << >> when there is no match
MatchFrom(pat, dollar, s, k, pos) ==
    IF k > Len(pat)
    THEN IF dollar => AtEnd(s, pos) THEN <<pos>> ELSE << >>
    ELSE IF IsLit(pat[k])
    THEN IF LitAt(pat[k].lit, s, pos)
         THEN Bind2(k + 1, pos + Len(pat[k].lit),
                    LAMBDA k2, p2 :
                      Bind(MatchFrom(pat, dollar, s, k2, p2),
                           LAMBDA rest : IF rest # << >> THEN <<pos>> \o rest ELSE << >>))
         ELSE << >>
    ELSE Bind(RunLen(pat[k], s, pos), LAMBDA n : TryCount(pat, dollar, s, k, pos, n))

\* the item taking n characters, then n - 1, ... down to lo
TryCount(pat, dollar, s, k, pos, n) ==
    IF n < pat[k].lo
    THEN << >>
    ELSE Bind2(k + 1, pos + n,
               LAMBDA k2, p2 :
                 Bind(MatchFrom(pat, dollar, s, k2, p2),
                      LAMBDA rest :
                        IF rest # << >> THEN <<pos>> \o rest
                        ELSE Bind(n - 1, LAMBDA n2 : TryCount(pat, dollar, s, k, pos, n2))))

\* the alternatives of a pattern, tried in order at one start position: the
\* text of the capturing group in a one-element sequence, or << >>
TryAlts(alts, s, start) ==
    LET hit(a) == Bind(MatchFrom(alts[a].items, alts[a].dollar, s, 1, start),
                       LAMBDA b : IF b # << >>
                                  THEN << SubSeq(s, b[alts[a].gfirst],
                                                 b[alts[a].glast + 1] - 1) >>
                                  ELSE << >>)
    IN  Bind([a \in 1..Len(alts) |-> hit(a)],
             LAMBDA hits :
               IF \A a \in 1..Len(alts) : hits[a] = << >> THEN << >>
               ELSE hits[CHOOSE a \in 1..Len(alts) :
                           hits[a] # << >> /\ \A c \in 1..(a - 1) : hits[c] = << >>])

\* re.search: the leftmost match
re_search(pattern, string) ==
    Bind2(pattern, string,
          LAMBDA alts, s :
            Bind([p \in 1..(Len(s) + 1) |-> TryAlts(alts, s, p)],
                 LAMBDA at :
                   IF \A p \in 1..(Len(s) + 1) : at[p] = << >> THEN << >>
                   ELSE at[CHOOSE p \in 1..(Len(s) + 1) :
                             at[p] # << >> /\ \A q \in 1..(p - 1) : at[q] = << >>]))

(***************************************************************************)
(* str methods                                                             *)
(***************************************************************************)
\* str.strip()
strip(string) ==
    Bind(string,
         LAMBDA s :
           Bind({k \in 1..Len(s) : s[k] \notin Space},
                LAMBDA keep :
                  IF keep = {} THEN << >>
                  ELSE SubSeq(s, CHOOSE k \in keep : \A j \in keep : k <= j,
                                 CHOOSE k \in keep : \A j \in keep : k >= j)))

\* a variant of replace_dot that leaves the dots
replace_dot_Keep(s) == s

\* str.replace('.', '-')
replace_dot(s) == [k \in 1..Len(s) |-> IF s[k] = "." THEN "-" ELSE s[k]]

\* str.split('\n'): the pieces between the newlines
split_lines(string) ==
    Bind(string,
         LAMBDA s :
           Bind({0} \cup {k \in 1..Len(s) : s[k] = NL},
                LAMBDA cuts :
                  LET after(c) == IF \E d \in cuts : d > c
                                  THEN CHOOSE d \in cuts : d > c /\ \A e \in cuts : e > c => d <= e
                                  ELSE Len(s) + 1
                      cut(n) == CHOOSE c \in cuts : Cardinality({d \in cuts : d < c}) = n - 1
                  IN  [n \in 1..Cardinality(cuts) |-> SubSeq(s, cut(n) + 1, after(cut(n)) - 1)]))

(***************************************************************************)
(* datetime.strptime(s, '%d-%b-%Y').  _strptime turns the format into the  *)
(* regular expression                                                      *)
(*   (3[0-1]|[1-2]\d|0[1-9]|[1-9]| [1-9])-(jan|...|dec)-(\d\d\d\d)         *)
(* matched ignoring case at the start of s, requires the match to use all  *)
(* of s, and builds a date, which fails for a day the month does not have  *)
(* and for year 0.                                                         *)
(***************************************************************************)
MonthAbbr == << <<"j", "a", "n">>, <<"f", "e", "b">>, <<"m", "a", "r">>,
                <<"a", "p", "r">>, <<"m", "a", "y">>, <<"j", "u", "n">>,
                <<"j", "u", "l">>, <<"a", "u", "g">>, <<"s", "e", "p">>,
                <<"o", "c", "t">>, <<"n", "o", "v">>, <<"d", "e", "c">> >>

NonZero == Digit \ {"0"}

\* 3[0-1] | [1-2]\d | 0[1-9] | " "[1-9]
TwoCharDay(a, b) ==
    \/ a = "3" /\ b \in {"0", "1"}
    \/ a \in {"1", "2"} /\ b \in Digit
    \/ a = "0" /\ b \in NonZero
    \/ a = " " /\ b \in NonZero

\* the length of the text %d matches before the "-", 0 when there is none
DayLen(s) ==
    IF Len(s) >= 3 /\ TwoCharDay(s[1], s[2]) /\ s[3] = "-" THEN 2
    ELSE IF Len(s) >= 2 /\ s[1] \in NonZero /\ s[2] = "-" THEN 1
    ELSE 0

\* int() of the day and of the year (a blank before the day counts as 0)
Val(c) == IF c = " " THEN 0 ELSE DigitVal[c]

IntOfDay(s) == IF Len(s) = 1 THEN Val(s[1]) ELSE 10 * Val(s[1]) + Val(s[2])

IntOfYear(s) == 1000 * Val(s[1]) + 100 * Val(s[2]) + 10 * Val(s[3]) + Val(s[4])

MonthIndex(abbr) ==
    LET low == [k \in 1..Len(abbr) |-> LowerOf(abbr[k])]
    IN  IF \E m \in 1..12 : MonthAbbr[m] = low
        THEN CHOOSE m \in 1..12 : MonthAbbr[m] = low
        ELSE 0

IsLeap(y) == y % 4 = 0 /\ (y % 100 # 0 \/ y % 400 = 0)

DaysInMonth(y, m) ==
    IF m = 2 THEN (IF IsLeap(y) THEN 29 ELSE 28)
    ELSE IF m \in {4, 6, 9, 11} THEN 30 ELSE 31

ValueError == [ok |-> FALSE]

strptime(string) ==
    Bind(string,
         LAMBDA s :
           LET dl == DayLen(s)
           IN  IF dl = 0 \/ Len(s) # dl + 9 THEN ValueError
               ELSE LET mon == MonthIndex(SubSeq(s, dl + 2, dl + 4))
                        ys  == SubSeq(s, dl + 6, dl + 9)
                    IN  IF mon = 0 \/ s[dl + 5] # "-" \/ \E k \in 1..4 : ys[k] \notin Digit
                        THEN ValueError
                        ELSE LET d == IntOfDay(SubSeq(s, 1, dl))
                                 y == IntOfYear(ys)
                             IN  IF y < 1 \/ d > DaysInMonth(y, mon) THEN ValueError
                                 ELSE [ok |-> TRUE, year |-> y, month |-> mon, day |-> d])

(***************************************************************************)
(* The regular expressions of extract_dividend_data.                       *)
(***************************************************************************)
\* one alternative: prefix, capturing group, suffix, and whether $ ends it
Alt(prefix, group, suffix, dollar) ==
    [items |-> prefix \o group \o suffix, dollar |-> dollar,
     gfirst |-> Len(prefix) + 1, glast |-> Len(prefix) + Len(group)]

\* \d{2}<sep>[A-Za-z]{3}<sep>\d{4}
DateItems(sep) ==
    << Rep(Digit, 2), One({sep}), Rep(Alpha, 3), One({sep}), Rep(Digit, 4) >>

\* \s*-?\s*
Dash == << Star(Space), Opt({"-"}), Star(Space) >>

L_DateOf == <<"D", "a", "t", "e", " ", "o", "f", " ">>

L_Initial == <<"I", "n", "i", "t", "i", "a", "l", " ">>

L_Announcement == <<"A", "n", "n", "o", "u", "n", "c", "e", "m", "e", "n", "t", ":">>

L_XD == <<"X", "D", ":">>

L_TBA == <<"T", "B", "A">>

L_FinancialYear == <<"F", "i", "n", "a", "n", "c", "i", "a", "l", " ", "Y", "e", "a", "r", ":">>

L_RateOfDividend == <<"R", "a", "t", "e", " ", "o", "f", " ", "D", "i", "v", "i", "d", "e", "n", "d", ":">>

L_Rs == <<"R", "s", ".">>

L_PerShare == <<"p", "e", "r", " ", "s", "h", "a", "r", "e">>

\* (\d{2}-[A-Za-z]{3}-\d{4})
TitleDateRe == << Alt(<< >>, DateItems("-"), << >>, FALSE) >>

\* -\s+([A-Z]+)\s*$
CodeRe == << Alt(<< One({"-"}), Plus(Space) >>, << Plus(Upper) >>, << Star(Space) >>, TRUE) >>

\* Date of (?:Initial )?Announcement:\s*-?\s*(\d{2}-[A-Za-z]{3}-\d{4})
AnnDateRe ==
    << Alt(Lit(L_DateOf) \o Lit(L_Initial) \o Lit(L_Announcement) \o Dash,
           DateItems("-"), << >>, FALSE),
       Alt(Lit(L_DateOf) \o Lit(L_Announcement) \o Dash,
           DateItems("-"), << >>, FALSE) >>

\* XD:\s*-?\s*(\d{2}\.[A-Za-z]{3}\.\d{4})
XdRe == << Alt(Lit(L_XD) \o Dash, DateItems("."), << >>, FALSE) >>

\* XD:\s*-?\s*TBA
XdTbaRe == << Alt(Lit(L_XD) \o Dash, Lit(L_TBA), << >>, FALSE) >>

\* Financial Year:\s*-?\s*([\d\s/]+)
FyRe ==
    << Alt(Lit(L_FinancialYear) \o Dash, << Plus(Digit \cup Space \cup {"/"}) >>,
           << >>, FALSE) >>

\* Rate of Dividend:\s*-?\s*Rs\.\s*([\d.]+)\s*per share
RateRe ==
    << Alt(Lit(L_RateOfDividend) \o Dash \o Lit(L_Rs) \o << Star(Space) >>,
           << Plus(Digit \cup {"."}) >>,
           << Star(Space) >> \o Lit(L_PerShare), FALSE) >>

(***************************************************************************)
(* extract_dividend_data.  A post is the part of the parsed document the   *)
(* function reads: whether it holds an h3/h2 heading, whether that heading *)
(* holds a link, the text of the heading (the link's text when there is a  *)
(* link) and the text that follows the heading.  The result is None or a   *)
(* dict, a function from the keys that are set.                            *)
(***************************************************************************)
None == [None |-> TRUE]

\* post.get_text()
get_text(post) == IF post.heading THEN post.title \o post.body ELSE post.body

\* [line.strip() for line in content.split('\n') if line.strip()]
Lines(content) ==
    Bind(split_lines(content),
         LAMBDA raw : SelectSeq([k \in 1..Len(raw) |-> strip(raw[k])],
                                LAMBDA l : l # << >>))

\* Each optional field is << >> (not set) or its value in a one-element
\* sequence.
\* lines 44-46
Company_Code(title) == re_search(CodeRe, title)

\* lines 52-54
Company_Name(content) ==
    Bind(Lines(content), LAMBDA lines : IF Len(lines) > 1 THEN << lines[2] >> ELSE << >>)

\* lines 57-59
Date_of_Announcement(content) == re_search(AnnDateRe, content)

\* lines 62-66
XD_Date(content) ==
    Bind(re_search(XdRe, content),
         LAMBDA xd_match :
           IF xd_match # << >> THEN << replace_dot(xd_match[1]) >>
           ELSE IF re_search(XdTbaRe, content) # << >> THEN << L_TBA >>
           ELSE << >>)

\* lines 69-71
Financial_Year(content) ==
    Bind(re_search(FyRe, content),
         LAMBDA fy_match : IF fy_match # << >> THEN << strip(fy_match[1]) >> ELSE << >>)

\* lines 74-76
Dividend_Rate(content) ==
    Bind(re_search(RateRe, content),
         LAMBDA rate_match :
           IF rate_match # << >> THEN << L_Rs \o <<" ">> \o rate_match[1] >> ELSE << >>)

OptionalKeys ==
    << "Company_Code", "Company_Name", "Date_of_Announcement", "XD_Date",
       "Financial_Year", "Dividend_Rate" >>

\* the dict: Post_Date and the optional fields that are set
MakeData(post_date, opt) ==
    LET set == {i \in 1..Len(OptionalKeys) : opt[i] # << >>}
    IN  [key \in {"Post_Date"} \cup {OptionalKeys[i] : i \in set} |->
           IF key = "Post_Date" THEN post_date
           ELSE opt[CHOOSE i \in set : OptionalKeys[i] = key][1]]

\* lines 43-76: the optional fields, each set only when its pattern matches
OptionalFields(post_date, title, content) ==
    Bind(<< Company_Code(title), Company_Name(content), Date_of_Announcement(content),
            XD_Date(content), Financial_Year(content), Dividend_Rate(content) >>,
         LAMBDA opt : MakeData(post_date, opt))

\* a variant of extract_dividend_data that does not look for the link
extract_without_link_check(fragment) ==
    Bind(fragment,
         LAMBDA post :
           IF ~post.heading THEN None
           ELSE Bind(re_search(TitleDateRe, post.title),
                     LAMBDA date_match :
                       IF date_match = << >> THEN None
                       ELSE Bind2(post.title, get_text(post),
                                  LAMBDA title, content :
                                    OptionalFields(date_match[1], title, content))))

\* lines 26-41: the gating steps; the title's date anchors the record
extract_dividend_data(fragment) ==
    Bind(fragment,
         LAMBDA post :
           IF ~post.heading THEN None
           ELSE IF ~post.link THEN None
           ELSE Bind(re_search(TitleDateRe, post.title),
                     LAMBDA date_match :
                       IF date_match = << >> THEN None
                       ELSE Bind2(post.title, get_text(post),
                                  LAMBDA title, content :
                                    OptionalFields(date_match[1], title, content))))

(***************************************************************************)
(* Inputs.  A date is written from a day, a month (13: the letters Xyz,    *)
(* no month) and a year, so that what the code reads back from the text    *)
(* can be compared with what was written.                                  *)
(***************************************************************************)
MonthName == << <<"J", "a", "n">>, <<"F", "e", "b">>, <<"M", "a", "r">>,
                <<"A", "p", "r">>, <<"M", "a", "y">>, <<"J", "u", "n">>,
                <<"J", "u", "l">>, <<"A", "u", "g">>, <<"S", "e", "p">>,
                <<"O", "c", "t">>, <<"N", "o", "v">>, <<"D", "e", "c">>,
                <<"X", "y", "z">> >>

DigitChar(n) == CHOOSE c \in Digit : DigitVal[c] = n

Render2(n) == << DigitChar(n \div 10), DigitChar(n % 10) >>

Render4(n) ==
    << DigitChar(n \div 1000), DigitChar((n \div 100) % 10),
       DigitChar((n \div 10) % 10), DigitChar(n % 10) >>

\* the day, month and year as DD<sep>Mon<sep>YYYY; style "lower" writes the
\* month in lower case, style "short" a day below 10 as one digit
Render(date, sep) ==
    LET day == IF date.style = "short" /\ date.d < 10
               THEN << DigitChar(date.d) >> ELSE Render2(date.d)
        name == MonthName[date.m]
        mon == IF date.style = "lower"
               THEN [k \in 1..Len(name) |-> LowerOf(name[k])] ELSE name
    IN  day \o <<sep>> \o mon \o <<sep>> \o Render4(date.y)

Date(d, m, y) == [d |-> d, m |-> m, y |-> y, style |-> "std"]

Styled(d, m, y, style) == [d |-> d, m |-> m, y |-> y, style |-> style]

\* whether day, month and year name a day of the calendar
IsCalendarDate(date) ==
    /\ date.m \in 1..12
    /\ date.y >= 1
    /\ date.d \in 1..DaysInMonth(date.y, date.m)

NoDate == [d |-> 0, m |-> 0, y |-> 0, style |-> "none"]

(***************************************************************************)
(* The posts the crawled pages are made of.  ann is the announcement date  *)
(* written into the post (NoDate: the post has no such line, or cannot be  *)
(* extracted at all).                                                      *)
(***************************************************************************)
T_Sep == <<" ", "-", " ">>

B_Ann == <<"D", "a", "t", "e", " ", "o", "f", " ", "A", "n", "n", "o", "u", "n", "c", "e", "m", "e", "n", "t", ":", " ", "-", " ">>

B_AnnInitial == <<"D", "a", "t", "e", " ", "o", "f", " ", "I", "n", "i", "t", "i", "a", "l", " ", "A", "n", "n", "o", "u", "n", "c", "e", "m", "e", "n", "t", ":", NBSP>>

B_Xd == <<"X", "D", ":", " ", "-", " ">>

TitleOf(date, code) == Render(date, "-") \o T_Sep \o code

MkPost(heading, link, title, body) ==
    [heading |-> heading, link |-> link, title |-> title, body |-> body]

PostIds == {"a", "b", "c", "d", "bad", "nodate", "nolink"}

PostCatalog ==
    [id \in PostIds |->
       CASE id = "a" ->
              [post |-> MkPost(TRUE, TRUE, TitleOf(Date(6, 6, 2026), <<"A", "B", "C">>),
                               <<NL>> \o <<"A", "c", "m", "e", " ", "P", "L", "C">> \o <<NL>> \o B_Ann
                               \o Render(Date(5, 6, 2026), "-") \o <<NL>> \o B_Xd
                               \o Render(Date(15, 6, 2026), ".") \o <<NL>>),
               ann |-> Date(5, 6, 2026)]
         [] id = "b" ->
              [post |-> MkPost(TRUE, TRUE, TitleOf(Date(11, 3, 2025), <<"X", "Y">>),
                               <<NL>> \o <<"X", "Y", " ", "L", "t", "d">> \o <<NL>> \o B_AnnInitial
                               \o Render(Styled(10, 3, 2025, "lower"), "-") \o <<NL>>),
               ann |-> Styled(10, 3, 2025, "lower")]
         [] id = "c" ->
              [post |-> MkPost(TRUE, TRUE, TitleOf(Date(2, 12, 2024), <<"C">>),
                               <<NL>> \o B_Ann \o Render(Date(1, 12, 2024), "-")),
               ann |-> Date(1, 12, 2024)]
         [] id = "d" ->
              [post |-> MkPost(TRUE, TRUE, TitleOf(Date(1, 3, 2020), <<"D">>),
                               <<NL>> \o B_Ann \o Render(Date(29, 2, 2020), "-")),
               ann |-> Date(29, 2, 2020)]
         [] id = "bad" ->
              [post |-> MkPost(TRUE, TRUE, TitleOf(Date(7, 6, 2026), <<"B", "A", "D">>),
                               <<NL>> \o B_Ann \o Render(Date(99, 13, 2026), "-")),
               ann |-> Date(99, 13, 2026)]
         [] id = "nodate" ->
              [post |-> MkPost(TRUE, TRUE, TitleOf(Date(8, 6, 2026), <<"N", "D">>),
                               <<NL>> \o <<"N", "o", " ", "D", "a", "t", "e", " ", "P", "L", "C">> \o <<NL>>),
               ann |-> NoDate]
         [] id = "nolink" ->
              [post |-> MkPost(TRUE, FALSE, TitleOf(Date(9, 6, 2026), <<"N", "L">>),
                               <<NL>> \o B_Ann \o Render(Date(9, 6, 2026), "-")),
               ann |-> NoDate]]

\* extract_dividend_data on each post of the catalog
ExtractOf == [id \in PostIds |-> extract_dividend_data(PostCatalog[id].post)]

\* soup.find_all('div', class_='post-outer') and the looser fallback selector
PageCatalog ==
    { [primary |-> << >>, fallback |-> << >>],
      [primary |-> <<"a", "b">>, fallback |-> <<"d">>],
      [primary |-> <<"a", "d", "b">>, fallback |-> << >>],
      [primary |-> <<"c", "a">>, fallback |-> << >>],
      [primary |-> <<"bad", "nodate", "nolink", "b">>, fallback |-> << >>],
      [primary |-> <<"d">>, fallback |-> << >>],
      [primary |-> << >>, fallback |-> <<"b", "c">>] }

(***************************************************************************)
(* State.                                                                  *)
(*   scrape_dividend_announcements: num_years, current_year, page_urls,    *)
(*     visited, page_count, all_dividends, url, soup, posts, idx (the      *)
(*     position of the for loop), pc (the position in the function) and    *)
(*     result (the returned list);                                         *)
(*   history of the crawl: fetched (the URLs handed to get_blogspot_page,  *)
(*     in order), extracted (the positions of the current page's posts     *)
(*     that were handed to extract_dividend_data), signal (the position of *)
(*     the post that broke the for loop of the page fetched last, else 0), *)
(*     failed (the URLs whose fetch raised), acc_at_fail (all_dividends    *)
(*     when a fetch raised) and acc_at_page (all_dividends when the        *)
(*     current page was fetched);                                          *)
(*   extract_dividend_data on its own: e_pc, e_in, e_out;                  *)
(*   filter_by_month: f_pc, dividends, month_number, filtered, f_idx.      *)
(***************************************************************************)
VARIABLES num_years, current_year, page_urls, visited, page_count,
          all_dividends, pc, url, soup, posts, idx, result,
          fetched, extracted, signal, failed, acc_at_fail, acc_at_page,
          e_pc, e_in, e_out,
          f_pc, dividends, month_number, filtered, f_idx

cvars == << num_years, current_year, page_urls, visited, page_count,
            all_dividends, pc, url, soup, posts, idx, result,
            fetched, extracted, signal, failed, acc_at_fail, acc_at_page >>

evars == << e_pc, e_in, e_out >>

fvars == << f_pc, dividends, month_number, filtered, f_idx >>

vars == << cvars, evars, fvars >>

(***************************************************************************)
(* scrape_dividend_announcements                                           *)
(***************************************************************************)
\* bounds of the model
MaxYears == 2

MaxAcc == 3

\* datetime.now().year
CurrentYears == {2026}

\* max_pages = num_years * 20
PagesPerYear == 20

\* base_url; a URL is a natural number
BaseUrl == 0

cutoff_year == current_year - num_years

max_pages == num_years * PagesPerYear

NoSoup == [page |-> [primary |-> << >>, fallback |-> << >>], older |-> [kind |-> "none"]]

\* the a.blog-pager-older-link of a page: no such element, one without href,
\* one with an empty href, or one whose href is a URL
NoLink == [kind |-> "none"]

LinkTo(u) == [kind |-> "url", href |-> u]

\* the smallest URL not visited yet
FreshUrl(seen) ==
    CHOOSE n \in 0..Cardinality(seen) : n \notin seen /\ \A m \in 0..(n - 1) : m \in seen

\* the older-posts links a page at u may hold: none, one without href or
\* with an empty one, to itself, to the first page, to a page not seen yet
Links(u, seen) ==
    { NoLink, [kind |-> "nohref"] }
    \cup { LinkTo(t) : t \in {u, BaseUrl, FreshUrl(seen)} }


CrawlIdle ==
    /\ num_years = 0 /\ current_year = 0 /\ page_urls = << >> /\ visited = {}
    /\ page_count = 0 /\ all_dividends = << >> /\ pc = "idle" /\ url = BaseUrl
    /\ soup = NoSoup /\ posts = << >> /\ idx = 0 /\ result = << >>
    /\ fetched = << >> /\ extracted = {} /\ signal = 0 /\ failed = {}
    /\ acc_at_fail = << >> /\ acc_at_page = << >>

ExtractIdle == e_pc = "idle" /\ e_in = << >> /\ e_out = None

FilterIdle ==
    /\ f_pc = "idle" /\ dividends = << >> /\ month_number = 0
    /\ filtered = << >> /\ f_idx = 0

\* lines 80-98
Init ==
    /\ num_years \in 1..MaxYears
    /\ current_year \in CurrentYears
    /\ page_urls = << BaseUrl >>
    /\ visited = {}
    /\ page_count = 0
    /\ all_dividends = << >>
    /\ pc = "loop"
    /\ url = BaseUrl
    /\ soup = NoSoup
    /\ posts = << >>
    /\ idx = 0
    /\ result = << >>
    /\ fetched = << >> /\ extracted = {} /\ signal = 0 /\ failed = {}
    /\ acc_at_fail = << >> /\ acc_at_page = << >>
    /\ ExtractIdle
    /\ FilterIdle

\* a variant of LoopCond that lets the counter reach the ceiling plus one
LoopCond_OffByOne(queue, count, ceiling) == queue # << >> /\ count <= ceiling

\* line 100: while page_urls and page_count < max_pages
LoopCond(queue, count, ceiling) == queue # << >> /\ count < ceiling

\* a variant of Pop that reads the first URL and leaves it in the queue
Pop_Peek(queue) == queue

\* line 101: page_urls.pop(0) leaves the rest of the queue
Pop(queue) == Tail(queue)

\* a variant of MarkVisited that forgets the URL
MarkVisited_Forget(seen, u) == seen

\* line 105: visited.add(url)
MarkVisited(seen, u) == seen \cup {u}

\* lines 100-106: the loop test, the pop, the visited check, the bookkeeping
LoopIter ==
    /\ pc = "loop"
    /\ LoopCond(page_urls, page_count, max_pages)
    /\ url' = Head(page_urls)
    /\ page_urls' = Pop(page_urls)
    /\ IF Head(page_urls) \in visited
       THEN /\ pc' = "loop"
            /\ UNCHANGED << visited, page_count >>
       ELSE /\ visited' = MarkVisited(visited, Head(page_urls))
            /\ page_count' = page_count + 1
            /\ pc' = "fetch"
    /\ UNCHANGED << num_years, current_year, all_dividends, soup, posts, idx,
                    result, fetched, extracted, signal, failed, acc_at_fail,
                    acc_at_page, evars, fvars >>

\* lines 100, 147-148: the loop test fails and the list is returned
Exit ==
    /\ pc = "loop"
    /\ ~LoopCond(page_urls, page_count, max_pages)
    /\ pc' = "done"
    /\ result' = all_dividends
    /\ UNCHANGED << num_years, current_year, page_urls, visited, page_count,
                    all_dividends, url, soup, posts, idx, fetched, extracted,
                    signal, failed, acc_at_fail, acc_at_page, evars, fvars >>

\* a variant of Verdict without the cutoff: every parseable date is kept
Verdict_AnyYear(data, year) ==
    IF data # None /\ "Date_of_Announcement" \in DOMAIN data
    THEN IF strptime(data["Date_of_Announcement"]).ok THEN "append" ELSE "skip"
    ELSE "skip"

\* lines 120-131: what one post does to the crawl: "append", "stop" (clear
\* the queue and break) or "skip"
Verdict(data, year) ==
    IF data # None /\ "Date_of_Announcement" \in DOMAIN data
    THEN LET ann_date == strptime(data["Date_of_Announcement"])
         IN  IF ~ann_date.ok THEN "skip"
             ELSE IF ann_date.year >= year THEN "append"
             ELSE IF ann_date.year < year THEN "stop"
             ELSE "skip"
    ELSE "skip"

\* a variant of AfterPost without the break
AfterPost_NoBreak(verdict, i, n) == IF i = n THEN "pager" ELSE "posts"

\* lines 118, 129: after a post the for loop goes on, ends, or is broken
AfterPost(verdict, i, n) == IF verdict = "stop" \/ i = n THEN "pager" ELSE "posts"

\* lines 112-116: the posts of the page, by the first selector that finds any
SelectPosts(page) == IF page.primary # << >> THEN page.primary ELSE page.fallback

\* lines 118-129: the number of records the for loop appends from the
\* posts of a page (those before the break); bounds the accumulator
Appendable(ids, year) ==
    LET verdict(j) == Verdict(ExtractOf[ids[j]], year)
        reached(j) == \A k \in 1..(j - 1) : AfterPost(verdict(k), k, Len(ids)) = "posts"
    IN  Cardinality({ j \in 1..Len(ids) : reached(j) /\ verdict(j) = "append" })

\* lines 108-116: get_blogspot_page returns a document
FetchOk ==
    /\ pc = "fetch"
    /\ \E page \in PageCatalog, older \in Links(url, visited) :
         /\ Len(all_dividends) + Appendable(SelectPosts(page), cutoff_year) <= MaxAcc
         /\ soup' = [page |-> page, older |-> older]
         /\ posts' = SelectPosts(page)
         /\ pc' = IF SelectPosts(page) = << >> THEN "pager" ELSE "posts"
    /\ idx' = 1
    /\ fetched' = Append(fetched, url)
    /\ signal' = 0
    /\ extracted' = {}
    /\ acc_at_page' = all_dividends
    /\ UNCHANGED << num_years, current_year, page_urls, visited, page_count,
                    all_dividends, url, result, failed, acc_at_fail, evars, fvars >>

\* a variant of OnFetchError that leaves the function, nothing returned
OnFetchError_Abort == "done"

\* lines 143-145: except Exception: print, continue
OnFetchError == "loop"

\* lines 108-109, 143-145: get_blogspot_page raises
FetchFail ==
    /\ pc = "fetch"
    /\ pc' = OnFetchError
    /\ fetched' = Append(fetched, url)
    /\ failed' = failed \cup {url}
    /\ acc_at_fail' = all_dividends
    /\ signal' = 0
    /\ extracted' = {}
    /\ UNCHANGED << num_years, current_year, page_urls, visited, page_count,
                    all_dividends, url, soup, posts, idx, result, acc_at_page,
                    evars, fvars >>

\* lines 118-131: one iteration of the for loop
ProcessPost ==
    /\ pc = "posts"
    /\ idx <= Len(posts)
    /\ \E dividend_data \in { ExtractOf[posts[idx]] } :
         \E verdict \in { Verdict(dividend_data, cutoff_year) } :
           /\ all_dividends' = IF verdict = "append"
                               THEN Append(all_dividends, dividend_data)
                               ELSE all_dividends
           /\ page_urls' = IF verdict = "stop" THEN << >> ELSE page_urls
           /\ signal' = IF verdict = "stop" THEN idx ELSE signal
           /\ pc' = AfterPost(verdict, idx, Len(posts))
    /\ idx' = idx + 1
    /\ extracted' = extracted \cup {idx}
    /\ UNCHANGED << num_years, current_year, visited, page_count, url, soup,
                    posts, result, fetched, failed, acc_at_fail, acc_at_page,
                    evars, fvars >>

\* a variant of Enqueue without the visited check
Enqueue_Unchecked(queue, older, seen) ==
    IF older.kind = "url" THEN Append(queue, older.href) ELSE queue

\* lines 134-138: the queue after the older-posts link is looked at
Enqueue(queue, older, seen) ==
    IF older.kind = "url" /\ older.href \notin seen
    THEN Append(queue, older.href)
    ELSE queue

\* lines 133-141: pagination, then back to the loop test
Pager ==
    /\ pc = "pager"
    /\ page_urls' = Enqueue(page_urls, soup.older, visited)
    /\ pc' = "loop"
    /\ UNCHANGED << num_years, current_year, visited, page_count, all_dividends,
                    url, soup, posts, idx, result, fetched, extracted, signal,
                    failed, acc_at_fail, acc_at_page, evars, fvars >>

Next == LoopIter \/ Exit \/ FetchOk \/ FetchFail \/ ProcessPost \/ Pager

Spec == Init /\ [][Next]_vars

\* the loop runs on its own: no step waits for anything but the fetch, which
\* returns or raises
FairSpec == Spec /\ WF_vars(Next)

(***************************************************************************)
(* extract_dividend_data on its own.  The input says what is written into  *)
(* the post: whether there is a heading and a link, the date of the title  *)
(* (tdate), whether the title ends in a company code, whether the company  *)
(* name line is there, and the labelled lines of the body.                 *)
(***************************************************************************)
T_Dividend == <<" ", "-", " ", "D", "i", "v", "i", "d", "e", "n", "d">>

T_Code == <<" ", "-", " ", "A", "B", "C", NBSP>>

T_NoDate == <<"A", "n", "n", "o", "u", "n", "c", "e", "m", "e", "n", "t">>

B_Name == <<"A", "c", "m", "e", " ", "P", "L", "C">>

B_AnnPlain == <<"D", "a", "t", "e", " ", "o", "f", " ", "A", "n", "n", "o", "u", "n", "c", "e", "m", "e", "n", "t", ":", " ">>

B_XdTba == <<"X", "D", ":", VT, "-", NBSP, "T", "B", "A">>

B_Fy == <<"F", "i", "n", "a", "n", "c", "i", "a", "l", " ", "Y", "e", "a", "r", ":", " ", "-", NBSP, "2", "0", "2", "3", NBSP, "/", NBSP, "2", "4">>

B_Rate == <<"R", "a", "t", "e", " ", "o", "f", " ", "D", "i", "v", "i", "d", "e", "n", "d", ":", " ", "-", " ", "R", "s", ".", NBSP, "2", ".", "5", "0", NBSP, "p", "e", "r", " ", "s", "h", "a", "r", "e">>

TitleDates ==
    { Date(5, 6, 2024), Date(99, 13, 2024), Styled(5, 6, 2024, "short"), NoDate }

AnnDates ==
    { [line |-> "plain", date |-> Date(5, 6, 2024)],
      [line |-> "initial", date |-> Date(29, 2, 2024)],
      [line |-> "plain", date |-> Date(99, 13, 2024)],
      [line |-> "plain", date |-> Styled(5, 6, 2024, "short")],
      [line |-> "none", date |-> NoDate] }

XdDates ==
    { [line |-> "dots", date |-> Date(15, 6, 2024)],
      [line |-> "dots", date |-> Date(99, 13, 2024)],
      [line |-> "dashes", date |-> Date(15, 6, 2024)],
      [line |-> "tba", date |-> NoDate],
      [line |-> "none", date |-> NoDate] }

ExtractInputs ==
    [heading : BOOLEAN, link : BOOLEAN, tdate : TitleDates, code : BOOLEAN,
     name : BOOLEAN, ann : AnnDates, xd : XdDates, fy : BOOLEAN, rate : BOOLEAN]

\* the lines of the body the input asks for, in the order of a real post
BodyLines(in) ==
    (IF in.name THEN << B_Name >> ELSE << >>)
    \o (CASE in.ann.line = "plain" -> << B_AnnPlain \o Render(in.ann.date, "-") >>
          [] in.ann.line = "initial" -> << B_AnnInitial \o Render(in.ann.date, "-") >>
          [] OTHER -> << >>)
    \o (CASE in.xd.line = "dots" -> << B_Xd \o Render(in.xd.date, ".") >>
          [] in.xd.line = "dashes" -> << B_Xd \o Render(in.xd.date, "-") >>
          [] in.xd.line = "tba" -> << B_XdTba >>
          [] OTHER -> << >>)
    \o (IF in.fy THEN << B_Fy >> ELSE << >>)
    \o (IF in.rate THEN << B_Rate >> ELSE << >>)

\* the lines joined, a newline before each; the body starts with a line of
\* a no-break space, as an empty paragraph of a page gives
JoinLines(lines) ==
    LET RECURSIVE Join(_)
        Join(n) == IF n = 0 THEN << >> ELSE Join(n - 1) \o <<NL>> \o lines[n]
    IN  Join(Len(lines))

BuildPost(in) ==
    MkPost(in.heading, in.heading /\ in.link,
           (IF in.tdate = NoDate THEN T_NoDate ELSE Render(in.tdate, "-"))
           \o T_Dividend \o (IF in.code THEN T_Code ELSE << >>),
           Bind(BodyLines(in), LAMBDA lines : <<NL, NBSP>> \o JoinLines(lines) \o <<NL>>))

InitExtract ==
    /\ e_pc = "call"
    /\ e_in \in ExtractInputs
    /\ e_out = None
    /\ CrawlIdle
    /\ FilterIdle

\* lines 21-78: one call
ExtractCall ==
    /\ e_pc = "call"
    /\ e_out' = extract_dividend_data(BuildPost(e_in))
    /\ e_pc' = "done"
    /\ UNCHANGED << e_in, cvars, fvars >>

NextExtract == ExtractCall

SpecExtract == InitExtract /\ [][NextExtract]_vars

(***************************************************************************)
(* filter_by_month                                                         *)
(***************************************************************************)
MaxRecs == 3

\* the announcement dates written into the records handed to the filter
FilterDates ==
    { Date(5, 6, 2024), Date(30, 6, 2025), Date(1, 12, 2024), Date(31, 6, 2024),
      Date(99, 13, 2024), Styled(7, 6, 2023, "short"), Styled(29, 2, 2024, "lower") }

\* the records: one per date, and one that has no Date_of_Announcement
FilterRecords ==
    { [Post_Date |-> Render(d, "-"), Date_of_Announcement |-> Render(d, "-")] :
        d \in FilterDates }
    \cup { [Post_Date |-> Render(Date(5, 6, 2024), "-")] }

RecordSeqs == UNION { [1..n -> FilterRecords] : n \in 0..MaxRecs }

InitFilter ==
    /\ f_pc = "loop"
    /\ dividends \in RecordSeqs
    /\ month_number \in 1..12
    /\ filtered = << >>
    /\ f_idx = 1
    /\ CrawlIdle
    /\ ExtractIdle

\* a variant of Keep that compares the day with the month number
Keep_Day(div, month) ==
    IF "Date_of_Announcement" \in DOMAIN div
    THEN Bind(strptime(div["Date_of_Announcement"]),
              LAMBDA ann_date : ann_date.ok /\ ann_date.day = month)
    ELSE FALSE

\* lines 155-161: whether the record is appended
Keep(div, month) ==
    IF "Date_of_Announcement" \in DOMAIN div
    THEN Bind(strptime(div["Date_of_Announcement"]),
              LAMBDA ann_date : ann_date.ok /\ ann_date.month = month)
    ELSE FALSE

\* lines 154-161: one iteration of the for loop
FilterStep ==
    /\ f_pc = "loop"
    /\ f_idx <= Len(dividends)
    /\ filtered' = IF Keep(dividends[f_idx], month_number)
                   THEN Append(filtered, dividends[f_idx]) ELSE filtered
    /\ f_idx' = f_idx + 1
    /\ UNCHANGED << f_pc, dividends, month_number, cvars, evars >>

\* line 163
FilterReturn ==
    /\ f_pc = "loop"
    /\ f_idx > Len(dividends)
    /\ f_pc' = "done"
    /\ UNCHANGED << dividends, month_number, filtered, f_idx, cvars, evars >>

NextFilter == FilterStep \/ FilterReturn

SpecFilter == InitFilter /\ [][NextFilter]_vars

(***************************************************************************)
(* Properties of the crawl.  They are stated against what was written      *)
(* into the posts (PostCatalog[id].ann), not against what the code read.   *)
(***************************************************************************)
\* the announcement date written into post id is a calendar date of a year
\* from the cutoff year on / before the cutoff year
InRange(id) ==
    IsCalendarDate(PostCatalog[id].ann) /\ PostCatalog[id].ann.y >= cutoff_year

TooOld(id) ==
    IsCalendarDate(PostCatalog[id].ann) /\ PostCatalog[id].ann.y < cutoff_year

\* the record carries the announcement date of a post that is in range
RecordInRange(r) ==
    /\ "Date_of_Announcement" \in DOMAIN r
    /\ \E id \in PostIds :
         InRange(id) /\ r["Date_of_Announcement"] = Render(PostCatalog[id].ann, "-")

\* C1: at every point of the crawl, and in the returned list, every record
\* of the accumulator carries an announcement date that is a calendar date
\* of a year >= current_year - num_years; records without such a date are
\* never appended.
C1_AccumulatorInRange ==
    /\ \A i \in 1..Len(all_dividends) : RecordInRange(all_dividends[i])
    /\ \A i \in 1..Len(result) : RecordInRange(result[i])

\* a page with an unparseable date, a post without date and a post without
\* link has been processed, and a record was kept
C1_Witness ==
    /\ pc = "done"
    /\ posts = <<"bad", "nodate", "nolink", "b">>
    /\ Len(result) >= 2

\* C2: no URL is handed to get_blogspot_page twice during one crawl.
C2_NoUrlFetchedTwice ==
    \A i, j \in 1..Len(fetched) : i # j => fetched[i] # fetched[j]

\* a page whose older-posts link points to a page fetched before (itself or
\* the first page) was processed after at least one other page
C2_Witness ==
    /\ pc = "loop"
    /\ Len(fetched) >= 2
    /\ soup.older.kind = "url"
    /\ soup.older.href \in visited
    /\ fetched[Len(fetched)] = url

\* the longest list of posts a page holds
MaxPosts ==
    CHOOSE n \in {Len(SelectPosts(p)) : p \in PageCatalog} :
        \A p \in PageCatalog : Len(SelectPosts(p)) <= n

\* how far the function is from its return within one turn of the loop
Stage ==
    CASE pc = "done" -> 0
      [] pc = "loop" -> 1 + Len(page_urls)
      [] pc = "pager" -> 3 + Len(page_urls)
      [] pc = "posts" -> 4 + Len(page_urls) + (Len(posts) + 1 - idx)
      [] pc = "fetch" -> 6 + Len(page_urls) + MaxPosts

\* a measure of the work left: the pages the ceiling still allows, then the
\* stage within the current turn of the loop
Rank == (num_years * PagesPerYear - page_count) * (5 + MaxPosts) + Stage

\* until the function has returned, a step is possible (for the for loop:
\* the guard of ProcessPost)
CanStep ==
    CASE pc = "loop" -> ENABLED LoopIter \/ ENABLED Exit
      [] pc = "fetch" -> ENABLED FetchFail
      [] pc = "posts" -> idx \in 1..Len(posts)
      [] pc = "pager" -> ENABLED Pager
      [] pc = "done" -> TRUE
      [] OTHER -> FALSE

\* C3: the crawl terminates (every step lowers Rank, a natural number, and a
\* step is possible until the function has returned), it never makes more
\* than num_years * 20 fetch attempts, and the loop is left exactly when the
\* queue is empty or the page counter has reached num_years * 20.
C3_HaltsWithinCeiling ==
    /\ [](Rank \in Nat)
    /\ [][Rank' < Rank]_vars
    /\ []CanStep
    /\ [](Len(fetched) <= num_years * PagesPerYear)
    /\ [][pc = "loop" =>
            (pc' = "done" <=> (page_urls = << >> \/ page_count >= num_years * PagesPerYear))]_vars

\* the ceiling stopped a crawl whose queue still held a URL
C3_Witness ==
    /\ pc = "done"
    /\ page_urls # << >>
    /\ page_count = num_years * PagesPerYear
    /\ Len(fetched) = num_years * PagesPerYear

\* the position of the first post of the page whose announcement date is
\* before the cutoff year, 0 when there is none
FirstTooOld(ids) ==
    IF \E j \in 1..Len(ids) : TooOld(ids[j])
    THEN CHOOSE j \in 1..Len(ids) : TooOld(ids[j]) /\ \A m \in 1..(j - 1) : ~TooOld(ids[m])
    ELSE 0

\* the records of the in-range posts among the first n posts
KeptOf(ids, n) ==
    LET RECURSIVE Kept(_)
        Kept(m) == IF m = 0 THEN << >>
                   ELSE IF InRange(ids[m]) THEN Append(Kept(m - 1), ExtractOf[ids[m]])
                   ELSE Kept(m - 1)
    IN  Kept(n)

\* C4: the first post of a page whose announcement year is below the cutoff
\* stops the page: the queue is emptied, no later post of the page is
\* extracted or appended (not even one in range), and what was appended
\* before stays.
C4_StopSignal ==
    pc \in {"posts", "pager"} =>
      LET first == FirstTooOld(posts)
          done == IF first # 0 /\ first < idx THEN first - 1 ELSE idx - 1
      IN  /\ first # 0 => \A j \in extracted : j <= first
          /\ (first # 0 /\ first \in extracted) =>
                signal = first /\ pc = "pager" /\ page_urls = << >>
          /\ (first = 0 \/ first \notin extracted) => signal = 0
          /\ all_dividends = acc_at_page \o KeptOf(posts, done)

\* the page a, d, b: a was appended, d stopped the page, b (in range) was
\* not looked at
C4_Witness ==
    /\ pc = "pager"
    /\ posts = <<"a", "d", "b">>
    /\ signal = 2
    /\ extracted = {1, 2}
    /\ Len(all_dividends) = Len(acc_at_page) + 1

\* the current page holds a post before the cutoff year
PageHasOld == \E j \in 1..Len(posts) : TooOld(posts[j])

\* C5: after a page holding a record older than the cutoff, the queue holds
\* the page's older-posts target when there is one and it is unvisited, and
\* is empty otherwise; an empty queue ends the crawl without another fetch,
\* a queued URL is the one fetched next unless the page ceiling is reached.
C5_QueueAfterCutoffPage ==
    /\ [][(pc = "pager" /\ PageHasOld) =>
            page_urls' = IF soup.older.kind = "url" /\ soup.older.href \notin visited
                         THEN << soup.older.href >> ELSE << >>]_vars
    /\ [][(pc = "loop" /\ signal # 0) =>
            IF page_urls = << >> \/ page_count >= num_years * PagesPerYear
            THEN pc' = "done" /\ fetched' = fetched
            ELSE pc' = "fetch" /\ url' = Head(page_urls) /\ fetched' = fetched]_vars
    /\ [][pc = "fetch" => fetched' = Append(fetched, url)]_vars

\* the second page held a record older than the cutoff and an older-posts
\* link to a new URL, which is now being fetched as the third page
C5_Witness ==
    /\ pc = "fetch"
    /\ page_count = 3
    /\ signal # 0
    /\ Len(fetched) = 2
    /\ soup.older = LinkTo(url)

\* s is a prefix of t
IsPrefix(s, t) == Len(s) <= Len(t) /\ SubSeq(t, 1, Len(s)) = s

\* C6: a fetch that raises does not abort the crawl: the accumulator is left
\* as it was, the URL stays visited and is never fetched again, control goes
\* back to the loop test with the queue untouched, and the crawl returns
\* what was accumulated.
C6_FetchFailureIsNotFatal ==
    /\ [][failed' # failed =>
            /\ all_dividends' = all_dividends
            /\ page_urls' = page_urls
            /\ visited' = visited /\ url \in visited
            /\ pc' = "loop"]_vars
    /\ [](\A u \in failed :
            /\ u \in visited
            /\ Cardinality({i \in 1..Len(fetched) : fetched[i] = u}) = 1)
    /\ []((pc = "done" /\ failed # {}) => IsPrefix(acc_at_fail, result))

\* a crawl that kept records and then met a failing page has returned them
C6_Witness ==
    /\ pc = "done"
    /\ failed # {}
    /\ Len(result) >= 1
    /\ Len(fetched) >= 2

\* C10: the queue never holds more than one URL and is empty while a page is
\* fetched and its posts are processed, so the clear at the cutoff removes
\* nothing; and after a page that hit the cutoff, an older-posts link to an
\* unvisited URL is in the queue all the same.
C10_QueueAtMostOne ==
    /\ Len(page_urls) <= 1
    /\ pc \in {"fetch", "posts", "pager"} => page_urls = << >>
    /\ (pc = "loop" /\ signal # 0 /\ soup.older.kind = "url"
          /\ soup.older.href \notin visited)
         => page_urls = << soup.older.href >>

\* the cutoff was hit on a page whose older-posts link is now queued
C10_Witness ==
    /\ pc = "loop"
    /\ signal # 0
    /\ page_urls # << >>

(***************************************************************************)
(* Properties of extract_dividend_data, stated against what was written    *)
(* into the post (e_in).                                                   *)
(***************************************************************************)
\* the date is written as two digits, three letters, four digits
TwoDigitDay(date) == date # NoDate /\ ~(date.style = "short" /\ date.d < 10)

HasShape(s, sep) ==
    /\ Len(s) = 11
    /\ \A k \in {1, 2, 8, 9, 10, 11} : s[k] \in Digit
    /\ \A k \in {4, 5, 6} : s[k] \in Alpha
    /\ s[3] = sep /\ s[7] = sep

\* the fragment has no heading, or no link in it, or no date token in the
\* link's text
NotExtractable(in) == ~in.heading \/ ~in.link \/ ~TwoDigitDay(in.tdate)

AnnWritten(in) == in.ann.line \in {"plain", "initial"} /\ TwoDigitDay(in.ann.date)

\* the optional keys the post gives a value for; the company name is the
\* second non-empty line, which exists when the body has a line at all
ExpectedKeys(in) ==
    {"Post_Date"}
    \cup (IF in.code THEN {"Company_Code"} ELSE {})
    \cup (IF in.name \/ in.ann.line # "none" \/ in.xd.line # "none" \/ in.fy \/ in.rate
          THEN {"Company_Name"} ELSE {})
    \cup (IF AnnWritten(in) THEN {"Date_of_Announcement"} ELSE {})
    \cup (IF in.xd.line \in {"dots", "tba"} THEN {"XD_Date"} ELSE {})
    \cup (IF in.fy THEN {"Financial_Year"} ELSE {})
    \cup (IF in.rate THEN {"Dividend_Rate"} ELSE {})

\* C8: extract returns None exactly when the fragment has no heading, the
\* heading has no link, or the link text has no DD-Mon-YYYY token; otherwise
\* it returns a record with Post_Date set, in which a missing optional field
\* is just not set.
C8_NotExtractableExactly ==
    e_pc = "done" =>
      /\ e_out = None <=> NotExtractable(e_in)
      /\ ~NotExtractable(e_in) => DOMAIN e_out = ExpectedKeys(e_in)

\* a post with a dated title and nothing else gives a record with Post_Date
\* alone
C8_Witness ==
    /\ e_pc = "done"
    /\ e_out # None
    /\ DOMAIN e_out = {"Post_Date"}

\* C9 as claimed: every date-like field that is present (XD_Date unless it
\* is TBA) is a calendar date; a token of the right shape that is no date
\* leaves the field absent.
C9_PresentDatesAreCalendarDates ==
    (e_pc = "done" /\ e_out # None) =>
      /\ IsCalendarDate(e_in.tdate)
      /\ "Date_of_Announcement" \in DOMAIN e_out => IsCalendarDate(e_in.ann.date)
      /\ ("XD_Date" \in DOMAIN e_out /\ e_out["XD_Date"] # L_TBA)
           => IsCalendarDate(e_in.xd.date)

\* C9 as amended: every date-like field that is present is the token as it
\* is written in the post, of the shape DD-Mon-YYYY (XD_Date: the dotted
\* token with its dots turned into dashes, or TBA); the token is not parsed,
\* so one of the right shape that is no calendar date is stored all the
\* same.
C9_PresentDatesAreTokens ==
    (e_pc = "done" /\ e_out # None) =>
      /\ e_out["Post_Date"] = Render(e_in.tdate, "-")
      /\ HasShape(e_out["Post_Date"], "-")
      /\ "Date_of_Announcement" \in DOMAIN e_out <=> AnnWritten(e_in)
      /\ "Date_of_Announcement" \in DOMAIN e_out =>
           /\ e_out["Date_of_Announcement"] = Render(e_in.ann.date, "-")
           /\ HasShape(e_out["Date_of_Announcement"], "-")
      /\ "XD_Date" \in DOMAIN e_out <=> e_in.xd.line \in {"dots", "tba"}
      /\ "XD_Date" \in DOMAIN e_out =>
           IF e_in.xd.line = "tba" THEN e_out["XD_Date"] = L_TBA
           ELSE /\ e_out["XD_Date"] = Render(e_in.xd.date, "-")
                /\ HasShape(e_out["XD_Date"], "-")

\* a record whose three date fields hold 99-Xyz-2024
C9_Witness ==
    /\ e_pc = "done"
    /\ e_out # None
    /\ {"Date_of_Announcement", "XD_Date"} \subseteq DOMAIN e_out
    /\ ~IsCalendarDate(e_in.tdate) /\ ~IsCalendarDate(e_in.ann.date)
    /\ ~IsCalendarDate(e_in.xd.date) /\ e_in.xd.line = "dots"

(***************************************************************************)
(* Properties of filter_by_month, stated against the dates written into    *)
(* the records (FilterDates).                                              *)
(***************************************************************************)
\* the month of the record's announcement date, 0 when the record has none
\* or what is written is no calendar date
MonthWritten(r) ==
    IF "Date_of_Announcement" \in DOMAIN r
    THEN LET d == CHOOSE d \in FilterDates : Render(d, "-") = r["Date_of_Announcement"]
         IN  IF IsCalendarDate(d) THEN d.m ELSE 0
    ELSE 0

\* C7: filter_by_month returns exactly the records whose announcement date
\* is present, is a date and has the asked month, in their order; the other
\* records are skipped without error.  (Stated for every point of the loop:
\* filtered is the selection from the records looked at so far.)
C7_FilterIsSelection ==
    f_pc \in {"loop", "done"} =>
      /\ f_idx \in 1..(Len(dividends) + 1)
      /\ f_pc = "done" => f_idx = Len(dividends) + 1
      /\ filtered = SelectSeq(SubSeq(dividends, 1, f_idx - 1),
                              LAMBDA r : MonthWritten(r) = month_number)

\* three records, the second without announcement date, the other two kept
C7_Witness ==
    /\ f_pc = "done"
    /\ Len(dividends) = 3
    /\ "Date_of_Announcement" \notin DOMAIN dividends[2]
    /\ filtered = << dividends[1], dividends[3] >>
    /\ dividends[1] # dividends[3]

====
